---- MODULE Spec2Model ----
(***************************************************************************)
(* Model of rustoci_ffi (src/src/lib.rs): the result-returning wrappers    *)
(* around the Oracle OCI entry points and the status translator            *)
(* check_error.  The native library is the environment: it answers every   *)
(* call with a status code and with the values it writes through the       *)
(* out-pointers it was handed.                                             *)
(***************************************************************************)
EXTENDS Integers, Sequences, FiniteSets, TLC

VARIABLES
    pc,         \* "run", or "aborted" once the process has panicked / faulted
    backend,    \* which native layer is linked: "any" or "healthy"
    diag,       \* native side: diagnostic record 1 held for each handle
    stmts,      \* native side: state and cache key of each statement handle
    nativeLog,  \* native calls issued by the most recent operation, in order
    ret         \* what the most recent operation handed back to its caller

vars == <<pc, backend, diag, stmts, nativeLog, ret>>

(***************************************************************************)
(* Bounds of the model.                                                    *)
(***************************************************************************)
MaxStmt == 1        \* statement handles are 1..MaxStmt
MaxStr  == 1        \* longest generated text before the terminator in a payload
MaxExec == 2        \* executions the simulated backend counts per statement

(***************************************************************************)
(* Pointers, handles and machine words.                                    *)
(***************************************************************************)
NULL == 0
Handles == {1, 2}           \* environment, server, service, session, descriptor
CtxHandles == {1}           \* the handles the caller works under
ErrHandles == {1}           \* the error handle the caller works with
StmtHandles == 1..MaxStmt
Unit == <<>>

None == [some |-> FALSE, val |-> NULL]
Some(h) == [some |-> TRUE, val |-> h]

CIntBytes  == 4
IsizeBytes == 8

\* i-th little-endian byte of the two's complement representation of v
ByteOf(v, i) == (v \div (256 ^ i)) % 256

\* `v as isize` for a c_int v: sign extension to the machine word
Isize(v) ==
    [i \in 1..IsizeBytes |->
        IF i <= CIntBytes THEN ByteOf(v, i - 1)
        ELSE IF v < 0 THEN 255 ELSE 0]

\* let errc: *mut isize = &mut 0
ZeroWord == [i \in 1..IsizeBytes |-> 0]

\* the native store of a c_int through `errc as *mut c_int`
StoreCInt(word, v) ==
    [i \in 1..IsizeBytes |->
        IF i <= CIntBytes THEN ByteOf(v, i - 1) ELSE word[i]]

(***************************************************************************)
(* Text.  A Rust String is a heap buffer, a capacity and a length; its     *)
(* content is the first `len` bytes of the buffer.                         *)
(***************************************************************************)
BufCapacity == 3072

WithCapacity(cap) == [heap |-> <<>>, cap |-> cap, len |-> 0]
to_string(lit) == [heap |-> lit, cap |-> Len(lit), len |-> Len(lit)]
Content(s) == SubSeq(s.heap, 1, s.len)

Truncate(text, n) == IF Len(text) <= n THEN text ELSE SubSeq(text, 1, n)

MsgNoData         == <<"N","o"," ","d","a","t","a">>
MsgInvalidHandle  == <<"I","n","v","a","l","i","d"," ","h","a","n","d","l","e">>
MsgNeedData       == <<"N","e","e","d"," ","d","a","t","a">>
MsgStillExecuting == <<"S","t","i","l","l"," ","e","x","e","c","u","t","i","n","g">>
MsgNoDetails      == <<"E","r","r","o","r"," ","w","i","t","h"," ","n","o"," ",
                       "d","e","t","a","i","l","s">>
MsgSuccessInfo    == <<"S","u","c","c","e","s","s"," ","w","i","t","h"," ",
                       "i","n","f","o">>

OracleError(code, message, location) ==
    [code |-> code, message |-> Content(message), location |-> location]

(***************************************************************************)
(* Status codes the native layer can answer with.                          *)
(***************************************************************************)
RecognizedCodes == {0, 100, -2, 99, -3123, -1, 1}
FixedCodes      == {100, -2, 99, -3123}
UnknownCodes    == {42}
StatusCodes     == RecognizedCodes \cup UnknownCodes

(***************************************************************************)
(* Native diagnostic records.                                              *)
(***************************************************************************)
NoDiag == [present |-> FALSE, code |-> 0, text |-> <<>>]
DiagTableMissing == [present |-> TRUE, code |-> 942,  text |-> <<"O","R","A">>]
DiagRecs ==
    { DiagTableMissing,
      [present |-> TRUE, code |-> -942, text |-> <<"X">>] }
DiagStates == [ErrHandles -> DiagRecs \cup {NoDiag}]

\* OCIErrorGet: copies record `recordno` of the handle into the caller's
\* errcodep and bufp (at most bufsiz bytes); OCI_NO_DATA and no store when
\* the handle holds no such record, OCI_INVALID_HANDLE for a null handle.
OCIErrorGet(d, hndlp, recordno, bufsiz) ==
    IF hndlp \notin DOMAIN d
    THEN [status |-> -2, wrote |-> FALSE, errcode |-> 0, text |-> <<>>]
    ELSE IF recordno = 1 /\ d[hndlp].present
    THEN [status |-> 0, wrote |-> TRUE, errcode |-> d[hndlp].code,
          text |-> Truncate(d[hndlp].text, bufsiz)]
    ELSE [status |-> 100, wrote |-> FALSE, errcode |-> 0, text |-> <<>>]

(***************************************************************************)
(* oci_error_get and check_error.  Both are evaluated against the native   *)
(* diagnostic state d that the preceding native call left behind; `calls`  *)
(* lists the native calls they issue.                                      *)
(***************************************************************************)
oci_error_get(error_handle, location, d) ==
    LET errc0 == ZeroWord
        buf0  == WithCapacity(BufCapacity)
        call  == [fn |-> "OCIErrorGet", hndlp |-> error_handle, recordno |-> 1,
                  sqlstate |-> NULL, bufsiz |-> buf0.cap, type |-> 2]
        resp  == OCIErrorGet(d, call.hndlp, call.recordno, call.bufsiz)
        errc  == IF resp.wrote THEN StoreCInt(errc0, resp.errcode) ELSE errc0
        \* the native layer fills the heap buffer; the String's len is untouched
        buf   == IF resp.wrote THEN [buf0 EXCEPT !.heap = resp.text] ELSE buf0
    IN  [calls |-> <<[call |-> call, status |-> resp.status, out |-> resp]>>,
         err   |-> OracleError(errc, buf, location)]

\* variant: an unlisted status falls into the success arm
MatchArm_lenient(code) ==
    CASE code = 0                        -> "success"
      [] code \in {100, -2, 99, -3123}   -> "fixed"
      [] code \in {-1, 1}                -> "by_handle"
      [] OTHER                           -> "success"

\* the arm of `match code` that a status code selects
MatchArm(code) ==
    CASE code = 0                        -> "success"
      [] code \in {100, -2, 99, -3123}   -> "fixed"
      [] code \in {-1, 1}                -> "by_handle"
      [] OTHER                           -> "panic"

\* variant: the literals of 100 and 99 exchanged
StatusMessage_swapped(code) ==
    CASE code = 100   -> MsgNeedData
      [] code = -2    -> MsgInvalidHandle
      [] code = 99    -> MsgNoData
      [] code = -3123 -> MsgStillExecuting
      [] code = -1    -> MsgNoDetails
      [] code = 1     -> MsgSuccessInfo
      [] OTHER        -> <<>>

\* variant: the -1 arm carries the literal of the 1 arm
StatusMessage_copied(code) ==
    CASE code = 100   -> MsgNoData
      [] code = -2    -> MsgInvalidHandle
      [] code = 99    -> MsgNeedData
      [] code = -3123 -> MsgStillExecuting
      [] code = -1    -> MsgSuccessInfo
      [] code = 1     -> MsgSuccessInfo
      [] OTHER        -> <<>>

\* variant: the 1 arm carries the literal of the -1 arm
StatusMessage_same(code) ==
    CASE code = 100   -> MsgNoData
      [] code = -2    -> MsgInvalidHandle
      [] code = 99    -> MsgNeedData
      [] code = -3123 -> MsgStillExecuting
      [] code = -1    -> MsgNoDetails
      [] code = 1     -> MsgNoDetails
      [] OTHER        -> <<>>

\* the message literal of the arm
StatusMessage(code) ==
    CASE code = 100   -> MsgNoData
      [] code = -2    -> MsgInvalidHandle
      [] code = 99    -> MsgNeedData
      [] code = -3123 -> MsgStillExecuting
      [] code = -1    -> MsgNoDetails
      [] code = 1     -> MsgSuccessInfo
      [] OTHER        -> <<>>

check_error(code, error_handle, location, d) ==
    LET by_handle == IF error_handle.some
                     THEN oci_error_get(error_handle.val, location, d)
                     ELSE [calls |-> <<>>]
        literal == [tag |-> "Some",
                    err |-> OracleError(Isize(code), to_string(StatusMessage(code)),
                                        location)]
        arm == MatchArm(code)
    IN  [calls |-> by_handle.calls,
         out   |-> CASE arm = "success"   -> [tag |-> "None"]
                     [] arm = "fixed"     -> literal
                     [] arm = "by_handle" -> IF error_handle.some
                                             THEN [tag |-> "Some", err |-> by_handle.err]
                                             ELSE literal
                     [] OTHER             -> [tag |-> "Panic"]]

(***************************************************************************)
(* Inputs the callers draw their arguments from.                           *)
(***************************************************************************)
Modes         == {0, 1}                 \* OCIMode::Default, OCIMode::Threaded
HandleTypes   == {2, 4}                 \* OCIHandleType::Error, ::Statement
CredTypes     == {1, 2}                 \* OCICredentialsType
AuthModes     == {0, 2}                 \* OCIAuthMode::Default, ::Sysdba
AttrServer    == 6
AttrSession   == 7
AttrUsername  == 22
AttrPassword  == 23
DescribeAttrs == {1, 4}                 \* OCIDescribeAttribute::DataSize, ::Name
DescParameter == 53                     \* OCIDescriptorType::Parameter
Positions     == {1, 2}
DbStrings     == {<<>>, <<100, 98>>}
StmtTexts     == {<<83>>}
Keys          == {<<>>, <<107, 49>>, <<107, 50>>}       \* "", "k1", "k2"
Locations     == {"here", "ffi::oci_stmt_execute"}

\* memory behind an attribute payload pointer: bytes that hold a terminator
Scott == <<115, 99, 111, 116, 116>>
RECURSIVE SeqsUpTo(_, _)
SeqsUpTo(S, n) ==
    IF n = 0 THEN {<<>>}
    ELSE LET shorter == SeqsUpTo(S, n - 1)
         IN  shorter \cup {Append(t, x) : t \in shorter, x \in S}
PayloadMems ==
    {t \o <<0>> : t \in SeqsUpTo({97}, MaxStr)}
    \cup {<<0, 98, 0>>, Scott \o <<0>>, Scott \o <<0, 0, 0, 120>>}
TextPayloads == {[addr |-> 1, mem |-> m] : m \in PayloadMems}
\* a server or session handle handed over as the payload
HandlePayloads == {[addr |-> 2, mem |-> <<>>]}
\* the (attribute type, payload) pairs callers set
AttrSettings ==
    ({AttrUsername} \X TextPayloads)
    \cup ({AttrPassword} \X {[addr |-> 1, mem |-> m] : m \in {<<97, 0>>, <<0, 98, 0>>}})
    \cup ({AttrServer} \X HandlePayloads)
    \cup ({AttrSession} \X {[addr |-> 1, mem |-> Scott \o <<0>>]})

\* CStr::from_ptr(p).to_bytes().len(): bytes before the first terminator
RECURSIVE CStrLen(_)
CStrLen(mem) == IF Head(mem) = 0 THEN 0 ELSE 1 + CStrLen(Tail(mem))

(***************************************************************************)
(* The native layer.  Respond(call) is the set of answers the linked       *)
(* library can give to a call in the current state: the status, the        *)
(* diagnostic and statement state it leaves, and what it writes through    *)
(* the out-pointer.                                                        *)
(***************************************************************************)
Unprepared == [st |-> "unprepared", key |-> <<>>, execs |-> 0]

HandleOut == {"OCIEnvNlsCreate", "OCIHandleAlloc", "OCIStmtPrepare2", "OCIParamGet"}
AttrOuts  == {[attr |-> a, size |-> n] : a \in {1}, n \in {1, 4}}

OutHandles(call) == IF call.fn = "OCIStmtPrepare2" THEN StmtHandles ELSE Handles

OutAfter(call, s) ==
    IF call.fn \in HandleOut
    THEN (IF s = 0 THEN OutHandles(call) ELSE {NULL})
    ELSE IF call.fn = "OCIAttrGet"
    THEN (IF s = 0 THEN AttrOuts ELSE {[attr |-> NULL, size |-> 0]})
    ELSE {NULL}

\* a call that fails through errhp may leave a new record on that handle
DiagAfter(call, s) ==
    IF "errhp" \in DOMAIN call /\ s \in {-1, 1}
    THEN {diag} \cup {[diag EXCEPT ![call.errhp] = r] : r \in DiagRecs}
    ELSE {diag}

\* any status, any record, any value written
AnyBackend(call) ==
    UNION {{[status |-> s, diag |-> d, stmts |-> stmts, out |-> o] :
                d \in DiagAfter(call, s), o \in OutAfter(call, s)} :
           s \in StatusCodes}

KeyOf(call) == Truncate(call.key, call.key_len)
Failure(call) ==
    [status |-> -1, diag |-> [diag EXCEPT ![call.errhp] = DiagTableMissing],
     stmts |-> stmts, out |-> NULL]
Invalid == [status |-> -2, diag |-> diag, stmts |-> stmts, out |-> NULL]

HealthyBackend(call) ==
    CASE call.fn = "OCIStmtPrepare2" ->
           {[status |-> 0, diag |-> diag, out |-> h,
             stmts |-> [stmts EXCEPT ![h] =
                          [st |-> "prepared", key |-> KeyOf(call), execs |-> 0]]] :
               h \in {x \in StmtHandles : stmts[x].st \in {"unprepared", "released"}}}
      [] call.fn = "OCIStmtExecute" ->
           IF stmts[call.stmtp].st \in {"prepared", "executed"}
           THEN IF stmts[call.stmtp].execs < MaxExec
                THEN {[status |-> 0, diag |-> diag, out |-> NULL,
                       stmts |-> [stmts EXCEPT ![call.stmtp].st = "executed",
                                               ![call.stmtp].execs = @ + 1]]}
                ELSE {}
           ELSE {Invalid}
      [] call.fn = "OCIStmtRelease" ->
           IF stmts[call.stmtp].st = "executed" /\ KeyOf(call) = stmts[call.stmtp].key
           THEN {[status |-> 0, diag |-> diag, out |-> NULL,
                  stmts |-> [stmts EXCEPT ![call.stmtp].st = "released"]]}
           ELSE IF stmts[call.stmtp].st \in {"prepared", "executed"}
           THEN {Failure(call)}
           ELSE {Invalid}
      [] OTHER ->
           {[status |-> 0, diag |-> diag, stmts |-> stmts, out |-> o] :
               o \in OutAfter(call, 0)}

Respond(call) == IF backend = "healthy" THEN HealthyBackend(call) ELSE AnyBackend(call)

(***************************************************************************)
(* The match on check_error that ends every wrapper: None => Ok(value),    *)
(* Some(err) => Err(err); a panic inside check_error ends the process.     *)
(***************************************************************************)
\* variant: an error from the translator is dropped
Outcome_swallow(translated, okval) ==
    CASE translated.tag = "None" -> [tag |-> "Ok", value |-> okval]
      [] translated.tag = "Some" -> [tag |-> "Ok", value |-> okval]
      [] OTHER                   -> [tag |-> "Panic"]

Outcome(translated, okval) ==
    CASE translated.tag = "None" -> [tag |-> "Ok", value |-> okval]
      [] translated.tag = "Some" -> [tag |-> "Err", err |-> translated.err]
      [] OTHER                   -> [tag |-> "Panic"]

Complete(op, args, call, resp, error_handle, location, okval) ==
    LET ce == check_error(resp.status, error_handle, location, resp.diag)
    IN  /\ diag' = resp.diag
        /\ stmts' = resp.stmts
        /\ nativeLog' = <<[call |-> call, status |-> resp.status, out |-> resp.out]>>
                        \o ce.calls
        /\ ret' = [op |-> op, args |-> args, returned |-> TRUE,
                   status |-> resp.status, result |-> Outcome(ce.out, okval)]
        /\ pc' = IF ce.out.tag = "Panic" THEN "aborted" ELSE "run"
        /\ UNCHANGED backend

(***************************************************************************)
(* The native call each wrapper issues for its arguments.                  *)
(***************************************************************************)
EnvNlsCreateCall(mode) ==
    [fn |-> "OCIEnvNlsCreate", mode |-> mode, ctxp |-> NULL, xtramem_sz |-> 0,
     usrmempp |-> NULL, charset |-> 0, ncharset |-> 0]

HandleAllocCall(envh, htype) ==
    [fn |-> "OCIHandleAlloc", parenth |-> envh, type |-> htype, xtramem_sz |-> 0,
     usrmempp |-> NULL]

ServerAttachCall(server_handle, error_handle, db, mode) ==
    [fn |-> "OCIServerAttach", srvhp |-> server_handle, errhp |-> error_handle,
     dblink |-> db, dblink_len |-> Len(db), mode |-> mode]

\* variant: the size of the whole buffer instead of the text length
AttrSetSize_buffer(attr_type, value) ==
    IF attr_type \in {AttrUsername, AttrPassword} THEN Len(value.mem) ELSE 0

\* size: the text length for Username and Password, 0 for every other type
AttrSetSize(attr_type, value) ==
    IF attr_type \in {AttrUsername, AttrPassword} THEN CStrLen(value.mem) ELSE 0

AttrSetCall(handle, htype, value, attr_type, error_handle) ==
    [fn |-> "OCIAttrSet", trgthndlp |-> handle, trghndltyp |-> htype,
     attributep |-> value, size |-> AttrSetSize(attr_type, value),
     attrtype |-> attr_type, errhp |-> error_handle]

SessionBeginCall(service_handle, error_handle, session_handle, credentials_type, mode) ==
    [fn |-> "OCISessionBegin", svchp |-> service_handle, errhp |-> error_handle,
     usrhp |-> session_handle, credt |-> credentials_type, mode |-> mode]

SessionEndCall(service_handle, error_handle, session_handle) ==
    [fn |-> "OCISessionEnd", svchp |-> service_handle, errhp |-> error_handle,
     usrhp |-> session_handle, mode |-> 0]

ServerDetachCall(server_handle, error_handle) ==
    [fn |-> "OCIServerDetach", srvhp |-> server_handle, errhp |-> error_handle,
     mode |-> 0]

HandleFreeCall(handle, htype) ==
    [fn |-> "OCIHandleFree", hndlp |-> handle, type |-> htype]

StmtPrepare2Call(service_handle, error_handle, stmt_text, stmt_hash) ==
    [fn |-> "OCIStmtPrepare2", svchp |-> service_handle, errhp |-> error_handle,
     stmt |-> stmt_text, stmt_len |-> Len(stmt_text),
     key |-> stmt_hash, key_len |-> Len(stmt_hash), language |-> 1, mode |-> 0]

StmtExecuteCall(service_handle, stmt_handle, error_handle) ==
    [fn |-> "OCIStmtExecute", svchp |-> service_handle, stmtp |-> stmt_handle,
     errhp |-> error_handle, iters |-> 0, rowoff |-> 0, snap_in |-> NULL,
     snap_out |-> NULL, mode |-> 0]

\* variant: the key length is not forwarded
StmtReleaseCall_nokey(stmt_handle, error_handle, stmt_hash) ==
    [fn |-> "OCIStmtRelease", stmtp |-> stmt_handle, errhp |-> error_handle,
     key |-> stmt_hash, key_len |-> 0, mode |-> 0]

StmtReleaseCall(stmt_handle, error_handle, stmt_hash) ==
    [fn |-> "OCIStmtRelease", stmtp |-> stmt_handle, errhp |-> error_handle,
     key |-> stmt_hash, key_len |-> Len(stmt_hash), mode |-> 0]

ParamGetCall(stmt_handle, error_handle, position) ==
    [fn |-> "OCIParamGet", hndlp |-> stmt_handle, htype |-> 4,
     errhp |-> error_handle, pos |-> position]

\* `attribute` is a null pointer and is handed over by value as attributep
AttrGetCall(attr_handle, error_handle, attr_type) ==
    [fn |-> "OCIAttrGet", trgthndlp |-> attr_handle, trghndltyp |-> DescParameter,
     attributep |-> NULL, attrtype |-> attr_type, errhp |-> error_handle]

\* Ok((attribute, attribute_size as isize))
AttrGetValue(attribute, attribute_size) ==
    [ptr |-> attribute, size |-> Isize(attribute_size)]

\* A native store of a result through out-pointer p.  Storing through a null
\* pointer is undefined: the process faults, or the library skips the store.
StoreThrough(p, status) ==
    IF status = 0 /\ p = NULL THEN {"fault", "skipped"} ELSE {"stored"}

Fault(op, args, call, resp) ==
    /\ pc' = "aborted"
    /\ nativeLog' = <<[call |-> call, status |-> resp.status, out |-> resp.out]>>
    /\ ret' = [op |-> op, args |-> args, returned |-> FALSE, status |-> resp.status,
               result |-> [tag |-> "Fault"]]
    /\ UNCHANGED <<backend, diag, stmts>>

(***************************************************************************)
(* The public operations.                                                  *)
(***************************************************************************)
Call_oci_env_nls_create ==
    /\ pc = "run"
    /\ \E mode \in Modes :
         LET call == EnvNlsCreateCall(mode)
         IN  \E resp \in Respond(call) :
               Complete("oci_env_nls_create", [mode |-> mode], call, resp,
                        None, "ffi::oci_env_nls_create", resp.out)

Call_oci_handle_alloc ==
    /\ pc = "run"
    /\ \E envh \in CtxHandles, htype \in HandleTypes :
         LET call == HandleAllocCall(envh, htype)
         IN  \E resp \in Respond(call) :
               Complete("oci_handle_alloc", [envh |-> envh, htype |-> htype], call,
                        resp, None, "ffi::oci_handle_alloc", resp.out)

Call_oci_server_attach ==
    /\ pc = "run"
    /\ \E server_handle \in CtxHandles, error_handle \in ErrHandles,
          db \in DbStrings, mode \in {0} :
         LET call == ServerAttachCall(server_handle, error_handle, db, mode)
         IN  \E resp \in Respond(call) :
               Complete("oci_server_attach",
                        [server_handle |-> server_handle,
                         error_handle |-> error_handle, db |-> db, mode |-> mode],
                        call, resp, Some(error_handle), "ffi::oci_server_attach", Unit)

Call_oci_error_get ==
    /\ pc = "run"
    /\ \E error_handle \in ErrHandles, location \in Locations :
         LET r == oci_error_get(error_handle, location, diag)
         IN  /\ nativeLog' = r.calls
             /\ ret' = [op |-> "oci_error_get",
                        args |-> [error_handle |-> error_handle,
                                  location |-> location],
                        returned |-> TRUE, status |-> r.calls[1].status,
                        result |-> [tag |-> "Value", err |-> r.err]]
             /\ UNCHANGED <<pc, backend, diag, stmts>>

Call_oci_attr_set ==
    /\ pc = "run"
    /\ \E handle \in CtxHandles, htype \in {9}, setting \in AttrSettings,
          error_handle \in ErrHandles :
         LET attr_type == setting[1]
             value == setting[2]
             call == AttrSetCall(handle, htype, value, attr_type, error_handle)
         IN  \E resp \in Respond(call) :
               Complete("oci_attr_set",
                        [handle |-> handle, htype |-> htype, value |-> value,
                         attr_type |-> attr_type, error_handle |-> error_handle],
                        call, resp, Some(error_handle), "ffi::oci_attr_set", Unit)

Call_oci_session_begin ==
    /\ pc = "run"
    /\ \E service_handle \in CtxHandles, error_handle \in ErrHandles,
          session_handle \in CtxHandles, credentials_type \in CredTypes,
          mode \in {0} :
         LET call == SessionBeginCall(service_handle, error_handle, session_handle,
                                      credentials_type, mode)
         IN  \E resp \in Respond(call) :
               Complete("oci_session_begin",
                        [service_handle |-> service_handle,
                         error_handle |-> error_handle,
                         session_handle |-> session_handle,
                         credentials_type |-> credentials_type, mode |-> mode],
                        call, resp, Some(error_handle), "ffi::oci_session_begin", Unit)

Call_oci_session_end ==
    /\ pc = "run"
    /\ \E service_handle \in CtxHandles, error_handle \in ErrHandles,
          session_handle \in CtxHandles :
         LET call == SessionEndCall(service_handle, error_handle, session_handle)
         IN  \E resp \in Respond(call) :
               Complete("oci_session_end",
                        [service_handle |-> service_handle,
                         error_handle |-> error_handle,
                         session_handle |-> session_handle],
                        call, resp, Some(error_handle), "ffi::oci_session_end", Unit)

Call_oci_server_detach ==
    /\ pc = "run"
    /\ \E server_handle \in CtxHandles, error_handle \in ErrHandles :
         LET call == ServerDetachCall(server_handle, error_handle)
         IN  \E resp \in Respond(call) :
               Complete("oci_server_detach",
                        [server_handle |-> server_handle,
                         error_handle |-> error_handle],
                        call, resp, Some(error_handle), "ffi::oci_server_detach", Unit)

Call_oci_handle_free ==
    /\ pc = "run"
    /\ \E handle \in CtxHandles, htype \in HandleTypes :
         LET call == HandleFreeCall(handle, htype)
         IN  \E resp \in Respond(call) :
               Complete("oci_handle_free", [handle |-> handle, htype |-> htype],
                        call, resp, None, "ffi::oci_handle_free", Unit)

Call_oci_stmt_prepare2 ==
    /\ pc = "run"
    /\ \E service_handle \in CtxHandles, error_handle \in ErrHandles,
          stmt_text \in StmtTexts, stmt_hash \in Keys :
         LET call == StmtPrepare2Call(service_handle, error_handle, stmt_text,
                                      stmt_hash)
         IN  \E resp \in Respond(call) :
               Complete("oci_stmt_prepare2",
                        [service_handle |-> service_handle,
                         error_handle |-> error_handle, stmt_text |-> stmt_text,
                         stmt_hash |-> stmt_hash],
                        call, resp, Some(error_handle), "ffi::oci_stmt_prepare2",
                        resp.out)

Call_oci_stmt_execute ==
    /\ pc = "run"
    /\ \E service_handle \in CtxHandles, stmt_handle \in StmtHandles,
          error_handle \in ErrHandles :
         LET call == StmtExecuteCall(service_handle, stmt_handle, error_handle)
         IN  \E resp \in Respond(call) :
               Complete("oci_stmt_execute",
                        [service_handle |-> service_handle,
                         stmt_handle |-> stmt_handle, error_handle |-> error_handle],
                        call, resp, Some(error_handle), "ffi::oci_stmt_execute", Unit)

Call_oci_stmt_release ==
    /\ pc = "run"
    /\ \E stmt_handle \in StmtHandles, error_handle \in ErrHandles, stmt_hash \in Keys :
         LET call == StmtReleaseCall(stmt_handle, error_handle, stmt_hash)
         IN  \E resp \in Respond(call) :
               Complete("oci_stmt_release",
                        [stmt_handle |-> stmt_handle, error_handle |-> error_handle,
                         stmt_hash |-> stmt_hash],
                        call, resp, Some(error_handle), "ffi::oci_stmt_release", Unit)

Call_oci_param_get ==
    /\ pc = "run"
    /\ \E stmt_handle \in StmtHandles, error_handle \in ErrHandles, position \in Positions :
         LET call == ParamGetCall(stmt_handle, error_handle, position)
         IN  \E resp \in Respond(call) :
               Complete("oci_param_get",
                        [stmt_handle |-> stmt_handle, error_handle |-> error_handle,
                         position |-> position],
                        call, resp, Some(error_handle), "ffi::oci_param_get",
                        resp.out)

Call_oci_attr_get ==
    /\ pc = "run"
    /\ \E attr_handle \in CtxHandles, error_handle \in ErrHandles,
          attr_type \in DescribeAttrs :
         LET call == AttrGetCall(attr_handle, error_handle, attr_type)
             args == [attr_handle |-> attr_handle, error_handle |-> error_handle,
                      attr_type |-> attr_type]
         IN  \E resp \in Respond(call) :
               \E store \in StoreThrough(call.attributep, resp.status) :
                 IF store = "fault"
                 THEN Fault("oci_attr_get", args, call, resp)
                 ELSE Complete("oci_attr_get", args, call, resp, Some(error_handle),
                               "ffi::oci_attr_get",
                               AttrGetValue(call.attributep, resp.out.size))

Call_check_error ==
    /\ pc = "run"
    /\ \E code \in StatusCodes, error_handle \in {None} \cup {Some(h) : h \in ErrHandles},
          location \in Locations :
         LET ce == check_error(code, error_handle, location, diag)
         IN  /\ nativeLog' = ce.calls
             /\ ret' = [op |-> "check_error",
                        args |-> [code |-> code, error_handle |-> error_handle,
                                  location |-> location],
                        returned |-> TRUE, status |-> code, result |-> ce.out]
             /\ pc' = IF ce.out.tag = "Panic" THEN "aborted" ELSE "run"
             /\ UNCHANGED <<backend, diag, stmts>>

(***************************************************************************)
(* Specifications: the wrappers over an arbitrary native layer (Spec) and  *)
(* over the simulated healthy backend (SpecHealthy).                       *)
(***************************************************************************)
InitCommon ==
    /\ pc = "run"
    /\ stmts = [h \in StmtHandles |-> Unprepared]
    /\ nativeLog = <<>>
    /\ ret = [op |-> "none", args |-> Unit, returned |-> FALSE, status |-> 0,
              result |-> [tag |-> "Nothing"]]

Init == InitCommon /\ backend = "any" /\ diag \in DiagStates

InitHealthy ==
    InitCommon /\ backend = "healthy" /\ diag = [h \in ErrHandles |-> NoDiag]

Next ==
    \/ Call_oci_env_nls_create
    \/ Call_oci_handle_alloc
    \/ Call_oci_server_attach
    \/ Call_oci_error_get
    \/ Call_oci_attr_set
    \/ Call_oci_session_begin
    \/ Call_oci_session_end
    \/ Call_oci_server_detach
    \/ Call_oci_handle_free
    \/ Call_oci_stmt_prepare2
    \/ Call_oci_stmt_execute
    \/ Call_oci_stmt_release
    \/ Call_oci_param_get
    \/ Call_oci_attr_get
    \/ Call_check_error

Spec == Init /\ [][Next]_vars

\* the statement lifecycle, run against the simulated backend
NextHealthy ==
    \/ Call_oci_stmt_prepare2
    \/ Call_oci_stmt_execute
    \/ Call_oci_stmt_release
    \/ Call_oci_error_get

SpecHealthy == InitHealthy /\ [][NextHealthy]_vars

(***************************************************************************)
(* Vocabulary of the properties.                                           *)
(***************************************************************************)
\* the signed value of a machine word, for words inside the c_int range
InCIntRange(w) == \A i \in (CIntBytes + 1)..IsizeBytes :
                     w[i] = (IF w[CIntBytes] >= 128 THEN 255 ELSE 0)
IntOf(w) == w[1] + 256 * w[2] + 65536 * w[3]
            + 16777216 * (IF w[4] >= 128 THEN w[4] - 256 ELSE w[4])
HasValue(w, v) == InCIntRange(w) /\ IntOf(w) = v

\* the operations that wrap one native entry point
WrappedOps ==
    {"oci_env_nls_create", "oci_handle_alloc", "oci_server_attach", "oci_attr_set",
     "oci_session_begin", "oci_session_end", "oci_server_detach", "oci_handle_free",
     "oci_stmt_prepare2", "oci_stmt_execute", "oci_stmt_release", "oci_param_get",
     "oci_attr_get"}

\* the OCIErrorGet calls among the native calls of the last operation
ErrorGetCalls == {i \in DOMAIN nativeLog : nativeLog[i].call.fn = "OCIErrorGet"}

Translated == ret.op = "check_error"
Supplied == ret.args.error_handle.some

\* bytes of a payload before its first terminator
BytesBeforeNul(mem) ==
    CHOOSE n \in 0..(Len(mem) - 1) :
        mem[n + 1] = 0 /\ \A i \in 1..n : mem[i] # 0

(***************************************************************************)
(* C1: for each status code of {100, -2, 99, -3123}, with or without an    *)
(* Error Handle and whatever the native diagnostic record holds,           *)
(* check_error returns an error with the fixed message of that code        *)
(* ("No data", "Invalid handle", "Need data", "Still executing"), the      *)
(* status code as its code and the caller's location.                      *)
(***************************************************************************)
C1_FixedMessages ==
    (Translated /\ ret.args.code \in FixedCodes) =>
        /\ ret.result.tag = "Some"
        /\ ret.result.err.message =
             (CASE ret.args.code = 100   -> MsgNoData
                [] ret.args.code = -2    -> MsgInvalidHandle
                [] ret.args.code = 99    -> MsgNeedData
                [] ret.args.code = -3123 -> MsgStillExecuting)
        /\ HasValue(ret.result.err.code, ret.args.code)
        /\ ret.result.err.location = ret.args.location

C1_Witness ==
    /\ Translated /\ ret.args.code = 99 /\ Supplied
    /\ diag[ret.args.error_handle.val].present
    /\ ret.result.tag = "Some"
    /\ ret.result.err.message = MsgNeedData

(***************************************************************************)
(* C2 (as claimed): for status -1 or 1 with an Error Handle supplied,      *)
(* check_error returns an error whose code and message are the code and    *)
(* the message text that OCIErrorGet produced for record 1 of that handle, *)
(* and whose location is the caller's.                                     *)
(***************************************************************************)
C2_ThreadsDiagnostic ==
    (Translated /\ ret.args.code \in {-1, 1} /\ Supplied
       /\ diag[ret.args.error_handle.val].present) =>
        /\ ret.result.tag = "Some"
        /\ ret.result.err.message = diag[ret.args.error_handle.val].text
        /\ HasValue(ret.result.err.code, diag[ret.args.error_handle.val].code)
        /\ ret.result.err.location = ret.args.location

(***************************************************************************)
(* C3: for status -1 without an Error Handle, check_error returns an       *)
(* error (never success) with message "Error with no details", code -1     *)
(* and the caller's location, and issues no OCIErrorGet call.              *)
(***************************************************************************)
C3_NoHandleFallback ==
    (Translated /\ ret.args.code = -1 /\ ~Supplied) =>
        /\ ret.result.tag = "Some"
        /\ ret.result.err.message = MsgNoDetails
        /\ HasValue(ret.result.err.code, -1)
        /\ ret.result.err.location = ret.args.location
        /\ ErrorGetCalls = {}

C3_Witness ==
    /\ Translated /\ ret.args.code = -1 /\ ~Supplied
    /\ ret.result.tag = "Some"
    /\ ret.args.location = "ffi::oci_stmt_execute"

(***************************************************************************)
(* C4 (as claimed): status 1 is always an error; with an Error Handle the  *)
(* result is the diagnostic-retrieval result, as for -1; without one it    *)
(* carries the same fallback message as -1, "Error with no details", so    *)
(* that the two statuses differ in the code field only.                    *)
(***************************************************************************)
C4_SameFallbackAsMinusOne ==
    (Translated /\ ret.args.code = 1) =>
        /\ ret.result.tag = "Some"
        /\ Supplied =>
             ret.result = check_error(-1, ret.args.error_handle,
                                      ret.args.location, diag).out
        /\ ~Supplied =>
             /\ ret.result.err.message = MsgNoDetails
             /\ HasValue(ret.result.err.code, 1)

(***************************************************************************)
(* C4 (amended): status 1 is always an error; with an Error Handle the     *)
(* result is the diagnostic-retrieval result, the same as for -1; without  *)
(* one it carries the fallback message "Success with info", code 1 and the *)
(* caller's location, so that the two statuses differ in the code and in   *)
(* the fallback message.                                                   *)
(***************************************************************************)
C4_SuccessWithInfoIsError ==
    (Translated /\ ret.args.code = 1) =>
        /\ ret.result.tag = "Some"
        /\ Supplied =>
             /\ ret.result = check_error(-1, ret.args.error_handle,
                                         ret.args.location, diag).out
             /\ Cardinality(ErrorGetCalls) = 1
        /\ ~Supplied =>
             /\ ret.result.err.message = MsgSuccessInfo
             /\ HasValue(ret.result.err.code, 1)
             /\ ret.result.err.location = ret.args.location
             /\ ErrorGetCalls = {}

C4_Witness ==
    /\ Translated /\ ret.args.code = 1 /\ ~Supplied
    /\ ret.result.tag = "Some"
    /\ ret.result.err.message = MsgSuccessInfo

(***************************************************************************)
(* C5: for a status code outside {0, 100, -2, 99, -3123, -1, 1}, with or   *)
(* without an Error Handle, check_error panics and returns nothing, and    *)
(* every operation whose native call answers such a code aborts instead    *)
(* of returning Ok or Err.                                                 *)
(***************************************************************************)
C5_UnknownStatusAborts ==
    ((Translated \/ ret.op \in WrappedOps) /\ ret.returned
       /\ ret.status \notin RecognizedCodes) =>
        /\ ret.result = [tag |-> "Panic"]
        /\ pc = "aborted"
        /\ ~ ENABLED Next

C5_Witness ==
    /\ ret.op = "oci_stmt_execute" /\ ret.returned /\ ret.status = 42
    /\ ret.result.tag = "Panic"
    /\ pc = "aborted"

(***************************************************************************)
(* C6: every wrapping operation returns success exactly when its native    *)
(* call answered status 0; for every other recognized status it returns an *)
(* error whose location is "ffi::" followed by the operation's name, and   *)
(* the error path hands no handle value to the caller.                     *)
(***************************************************************************)
C6_SuccessIffStatusZero ==
    (ret.op \in WrappedOps /\ ret.returned) =>
        /\ ret.result.tag = "Ok" <=> ret.status = 0
        /\ ret.status = nativeLog[1].status
        /\ (ret.status \in RecognizedCodes \ {0}) =>
             /\ ret.result.tag = "Err"
             /\ ret.result.err.location = "ffi::" \o ret.op
             /\ DOMAIN ret.result = {"tag", "err"}

C6_Witness ==
    /\ ret.op = "oci_param_get" /\ ret.returned /\ ret.status = 100
    /\ ret.result.tag = "Err"
    /\ ret.result.err.location = "ffi::oci_param_get"

(***************************************************************************)
(* C7 (as claimed): for the status codes 100, -2, 99 and -3123 the         *)
(* translation issues no OCIErrorGet call, also when an Error Handle is    *)
(* supplied.                                                               *)
(***************************************************************************)
C7_NoLookupForFixedCodes ==
    (Translated /\ ret.args.code \in FixedCodes) => ErrorGetCalls = {}

(***************************************************************************)
(* C8: oci_attr_set hands the native layer a size equal to the number of   *)
(* bytes before the first terminator of the payload for Username and       *)
(* Password, whatever the size of the buffer, and 0 for every other        *)
(* attribute type; payload pointer, handle and type tags go through        *)
(* unchanged.                                                              *)
(***************************************************************************)
C8_AttrSetSize ==
    (ret.op = "oci_attr_set") =>
        LET call == nativeLog[1].call
        IN  /\ call.fn = "OCIAttrSet"
            /\ call.size = (IF ret.args.attr_type \in {AttrUsername, AttrPassword}
                            THEN BytesBeforeNul(ret.args.value.mem) ELSE 0)
            /\ call.attributep = ret.args.value
            /\ call.trgthndlp = ret.args.handle
            /\ call.trghndltyp = ret.args.htype
            /\ call.attrtype = ret.args.attr_type
            /\ call.errhp = ret.args.error_handle

C8_Witness ==
    /\ ret.op = "oci_attr_set"
    /\ ret.args.attr_type = AttrUsername
    /\ ret.args.value.mem = Scott \o <<0, 0, 0, 120>>
    /\ nativeLog[1].call.size = 5

(***************************************************************************)
(* C9 (as claimed): when OCIAttrGet answers status 0, oci_attr_get returns *)
(* the payload pointer and the size that the native layer produced for the *)
(* requested attribute.                                                    *)
(***************************************************************************)
C9_AttrGetReturnsPayload ==
    (ret.op = "oci_attr_get" /\ ret.returned /\ ret.status = 0) =>
        /\ ret.result.tag = "Ok"
        /\ ret.result.value.ptr = nativeLog[1].out.attr
        /\ HasValue(ret.result.value.size, nativeLog[1].out.size)

(***************************************************************************)
(* C10: on the healthy backend, which enforces the statement state machine *)
(* and the cache key, Prepare with a key succeeds and yields a prepared    *)
(* statement under that key, Execute on a prepared or executed statement   *)
(* succeeds, and Release of an executed statement forwards the caller's    *)
(* key bytes and length unchanged, succeeds when the key is the one of     *)
(* Prepare and is reported as an error when it is another key.             *)
(***************************************************************************)
C10_Step ==
    /\ (ret'.op = "oci_stmt_prepare2") =>
         /\ ret'.result.tag = "Ok"
         /\ stmts[ret'.result.value].st \in {"unprepared", "released"}
         /\ stmts'[ret'.result.value] =
              [st |-> "prepared", key |-> ret'.args.stmt_hash, execs |-> 0]
    /\ (ret'.op = "oci_stmt_execute"
          /\ stmts[ret'.args.stmt_handle].st \in {"prepared", "executed"}) =>
         /\ ret'.result.tag = "Ok"
         /\ stmts'[ret'.args.stmt_handle].st = "executed"
    /\ (ret'.op = "oci_stmt_release"
          /\ stmts[ret'.args.stmt_handle].st = "executed") =>
         /\ nativeLog'[1].call.key = ret'.args.stmt_hash
         /\ nativeLog'[1].call.key_len = Len(ret'.args.stmt_hash)
         /\ (ret'.args.stmt_hash = stmts[ret'.args.stmt_handle].key) =>
              /\ ret'.result.tag = "Ok"
              /\ stmts'[ret'.args.stmt_handle].st = "released"
         /\ (ret'.args.stmt_hash # stmts[ret'.args.stmt_handle].key) =>
              /\ ret'.result.tag = "Err"
              /\ stmts'[ret'.args.stmt_handle].st = "executed"

C10_RoundTrip == [][C10_Step]_vars

C10_Witness ==
    /\ backend = "healthy"
    /\ ret.op = "oci_stmt_release" /\ ret.result.tag = "Ok"
    /\ ret.args.stmt_hash = <<107, 49>>
    /\ stmts[ret.args.stmt_handle].st = "released"
    /\ stmts[ret.args.stmt_handle].execs >= 2

(***************************************************************************)
(* C11 (as claimed): an operation is a single round-trip to the native     *)
(* layer: one invocation issues exactly one native call in total, also     *)
(* when the native call answers status 0.                                  *)
(***************************************************************************)
C11_SingleRoundTrip ==
    (ret.op \in WrappedOps) => Len(nativeLog) = 1

(***************************************************************************)
(* C12 (as claimed): for status -1 or 1 with an Error Handle that holds no *)
(* diagnostic detail (OCIErrorGet answers no data and stores nothing), the *)
(* error degrades to the generic message "Error with no details" and does  *)
(* not carry an empty message with a zero code.                            *)
(***************************************************************************)
C12_DegradesToGeneric ==
    (Translated /\ ret.args.code \in {-1, 1} /\ Supplied
       /\ ~ diag[ret.args.error_handle.val].present) =>
        /\ ret.result.tag = "Some"
        /\ ret.result.err.message = MsgNoDetails
        /\ ~ (ret.result.err.message = <<>> /\ ret.result.err.code = ZeroWord)

(***************************************************************************)
(* C13 (as claimed): the code of the error returned by oci_error_get is    *)
(* the signed error code the native layer wrote, negative values included: *)
(* the c_int stored into the zeroed isize slot reads back, at word width,  *)
(* as the same signed value.                                               *)
(***************************************************************************)
C13_SignedCodePreserved ==
    (ret.op = "oci_error_get" /\ nativeLog[1].out.wrote) =>
        HasValue(ret.result.err.code, nativeLog[1].out.errcode)

====
